---------------------------- MODULE Spec2Model ----------------------------
(***************************************************************************)
(* A model of converterr.py, the command-line temperature converter:       *)
(* parse_arguments (argparse), celsius_to_fahrenheit,                      *)
(* fahrenheit_to_celsius, format_output and main.                          *)
(*                                                                         *)
(* Python's float is modelled as a binary floating-point format of the     *)
(* same shape as IEEE-754 binary64 (sign, MantBits-bit significand,        *)
(* gradual underflow, round-to-nearest-even, overflow to infinity, signed  *)
(* zero, NaN) with a narrower significand and exponent range.              *)
(***************************************************************************)
EXTENDS Integers, Sequences, FiniteSets, TLC

\* ------------------------------------------------------------------ floats

\* Width of the significand (53 in binary64).
MantBits == 8
\* Every finite magnitude is below 2^MaxExp (1024 in binary64).
MaxExp == 10
\* The smallest positive magnitude is 2^-FracBits (1074 in binary64).
FracBits == 3

RECURSIVE Pow2(_)
Pow2(n) == IF n = 0 THEN 1 ELSE 2 * Pow2(n - 1)

RECURSIVE Pow10(_)
Pow10(n) == IF n = 0 THEN 1 ELSE 10 * Pow10(n - 1)

Abs(i) == IF i < 0 THEN -i ELSE i

\* Magnitudes are counted in quanta of 2^-FracBits: Quantum quanta make 1.0.
Quantum == Pow2(FracBits)
MaxShift == MaxExp + FracBits - MantBits
\* The largest finite magnitude (sys.float_info.max), in quanta.
MaxMag == (Pow2(MantBits) - 1) * Pow2(MaxShift)

None == [kind |-> "None"]
NaN == [kind |-> "nan", neg |-> FALSE, mag |-> 0]
Inf(neg) == [kind |-> "inf", neg |-> neg, mag |-> 0]
Fin(neg, mag) == [kind |-> "fin", neg |-> neg, mag |-> mag]

IsFinite(x) == x.kind = "fin"

\* A magnitude the format holds: a significand of MantBits bits times a power
\* of two, subnormals included.
Representable(n) ==
    \/ n < Pow2(MantBits)
    \/ \E s \in 1..MaxShift : n % Pow2(s) = 0 /\ n \div Pow2(s) < Pow2(MantBits)

Magnitudes == {n \in 0..MaxMag : Representable(n)}
FiniteFloats == {Fin(neg, n) : neg \in BOOLEAN, n \in Magnitudes}
Floats == FiniteFloats \cup {Inf(FALSE), Inf(TRUE), NaN}

\* a/b rounded to the nearest integer, ties to even.
RoundHalfEven(a, b) ==
    LET q == a \div b
        r == a % b
    IN  IF 2 * r < b THEN q
        ELSE IF 2 * r > b THEN q + 1
        ELSE IF q % 2 = 0 THEN q ELSE q + 1

\* The exponent of the binade num/den falls in: the least s >= 0 with
\* num/den < 2^(MantBits + s).
RECURSIVE BinadeShift(_, _, _)
BinadeShift(num, den, s) ==
    IF num < den * Pow2(MantBits + s) THEN s ELSE BinadeShift(num, den, s + 1)

\* The spacing of the floats around the magnitude mag, in quanta.
Ulp(mag) == Pow2(BinadeShift(mag, 1, 0))

\* The float nearest the exact magnitude num/den (quanta) with sign neg:
\* round to nearest even, infinity past the largest finite magnitude.
RoundToFloat(neg, num, den) ==
    LET u == Pow2(BinadeShift(num, den, 0))
        r == RoundHalfEven(num, den * u) * u
    IN  IF r > MaxMag THEN Inf(neg) ELSE Fin(neg, r)

\* int -> float, as Python converts the int operand of a mixed operation.
FromInt(i) == RoundToFloat(i < 0, Abs(i) * Quantum, 1)

\* The signed value of a finite float, in quanta.
Signed(x) == IF x.neg THEN -x.mag ELSE x.mag

FNeg(x) == IF x.kind = "nan" THEN x ELSE [x EXCEPT !.neg = ~x.neg]

\* float * float
FMul(a, b) ==
    IF a.kind = "nan" \/ b.kind = "nan" THEN NaN
    ELSE IF a.kind = "inf" \/ b.kind = "inf"
         THEN IF (a.kind = "fin" /\ a.mag = 0) \/ (b.kind = "fin" /\ b.mag = 0)
              THEN NaN
              ELSE Inf(a.neg # b.neg)
    ELSE RoundToFloat(a.neg # b.neg, a.mag * b.mag, Quantum)

\* float / float for a finite non-zero divisor (the program divides by the
\* literals 5 and 9 only).
FDiv(a, b) ==
    IF a.kind = "nan" THEN NaN
    ELSE IF a.kind = "inf" THEN Inf(a.neg # b.neg)
    ELSE RoundToFloat(a.neg # b.neg, a.mag * Quantum, b.mag)

\* float + float
FAdd(a, b) ==
    IF a.kind = "nan" \/ b.kind = "nan" THEN NaN
    ELSE IF a.kind = "inf" /\ b.kind = "inf"
         THEN IF a.neg = b.neg THEN a ELSE NaN
    ELSE IF a.kind = "inf" THEN a
    ELSE IF b.kind = "inf" THEN b
    ELSE LET v == Signed(a) + Signed(b)
         IN  IF v = 0 THEN Fin(a.neg /\ b.neg, 0)
             ELSE RoundToFloat(v < 0, Abs(v), 1)

\* float - float
FSub(a, b) == FAdd(a, FNeg(b))

\* -------------------------------------------------------------- conversions

\* The formula with 9/5 taken as an integer division: celsius * (9 // 5) + 32.
celsius_to_fahrenheit_intdiv(celsius) ==
    FAdd(FMul(celsius, FromInt(9 \div 5)), FromInt(32))

\* return (celsius * 9/5) + 32
celsius_to_fahrenheit(celsius) ==
    FAdd(FDiv(FMul(celsius, FromInt(9)), FromInt(5)), FromInt(32))

\* The formula without its parentheses: fahrenheit - 32 * 5/9.
fahrenheit_to_celsius_noparens(fahrenheit) ==
    FSub(fahrenheit, FDiv(FMul(FromInt(32), FromInt(5)), FromInt(9)))

\* return (fahrenheit - 32) * 5/9
fahrenheit_to_celsius(fahrenheit) ==
    FDiv(FMul(FSub(fahrenheit, FromInt(32)), FromInt(5)), FromInt(9))

\* ------------------------------------------------------------ text <-> value

\* The degree sign, U+00B0, of the output line and of the epilog.  TLC keeps
\* the low byte of a character in the states it writes to its disk queue and
\* sign-extends it when it reads them back, so a character beyond ASCII does
\* not compare equal to itself in a large run: the model writes the sign as
\* one ASCII character that occurs nowhere else in the program's text.
Degree == "^"

Digits == {"0", "1", "2", "3", "4", "5", "6", "7", "8", "9"}

DigitValue(c) ==
    CASE c = "0" -> 0 [] c = "1" -> 1 [] c = "2" -> 2 [] c = "3" -> 3
      [] c = "4" -> 4 [] c = "5" -> 5 [] c = "6" -> 6 [] c = "7" -> 7
      [] c = "8" -> 8 [] c = "9" -> 9

DigitChar(d) == SubSeq("0123456789", d + 1, d + 1)

RECURSIVE AllDigits(_)
AllDigits(s) == s = "" \/ (Head(s) \in Digits /\ AllDigits(Tail(s)))

IsDigits(s) == s # "" /\ AllDigits(s)

RECURSIVE DigitsValue(_, _)
DigitsValue(s, acc) ==
    IF s = "" THEN acc ELSE DigitsValue(Tail(s), 10 * acc + DigitValue(Head(s)))

RECURSIVE StripLeadingZeros(_)
StripLeadingZeros(s) ==
    IF s # "" /\ Head(s) = "0" THEN StripLeadingZeros(Tail(s)) ELSE s

\* The first position of the character c in s, 0 when there is none.
RECURSIVE IndexFrom(_, _, _)
IndexFrom(s, c, k) ==
    IF k > Len(s) THEN 0
    ELSE IF SubSeq(s, k, k) = c THEN k ELSE IndexFrom(s, c, k + 1)

IndexOf(s, c) == IndexFrom(s, c, 1)

RECURSIVE IntToStr(_)
IntToStr(n) ==
    IF n < 10 THEN DigitChar(n) ELSE IntToStr(n \div 10) \o DigitChar(n % 10)

RECURSIVE ZeroPad(_, _)
ZeroPad(s, width) == IF Len(s) >= width THEN s ELSE ZeroPad("0" \o s, width)

ValueError == [kind |-> "ValueError"]

HasSign(s) == s # "" /\ Head(s) \in {"+", "-"}
Unsigned(s) == IF HasSign(s) THEN Tail(s) ELSE s
IsMinus(s) == s # "" /\ Head(s) = "-"

\* The float nearest digits * 10^exp10 (digits a string of decimal digits).
\* A literal of at least 10^k >= 2^(3k) >= 2^MaxExp is infinity and one below
\* 10^-k <= 2^-(3k) <= 2^-(FracBits + 2) is zero, whatever its digits.
DecimalToFloat(neg, digits, exp10) ==
    LET sig == StripLeadingZeros(digits)
        top == Len(sig) + exp10
        d   == DigitsValue(sig, 0)
    IN  IF sig = "" THEN Fin(neg, 0)
        ELSE IF 3 * (top - 1) >= MaxExp THEN Inf(neg)
        ELSE IF 3 * (-top) >= FracBits + 2 THEN Fin(neg, 0)
        ELSE IF exp10 >= 0
             THEN RoundToFloat(neg, d * Pow10(exp10) * Quantum, 1)
             ELSE RoundToFloat(neg, d * Quantum, Pow10(-exp10))

\* float(s), the type= of -c and -f, for the literals [sign] inf | infinity |
\* nan and [sign] digits [. digits] [e [sign] digits] (lower case, no blanks,
\* no underscores): the float, or ValueError.
float(s) ==
    LET body == Unsigned(s)
        neg  == IsMinus(s)
        e    == IndexOf(body, "e")
        mant == IF e = 0 THEN body ELSE SubSeq(body, 1, e - 1)
        ex   == IF e = 0 THEN "" ELSE SubSeq(body, e + 1, Len(body))
        dot  == IndexOf(mant, ".")
        ip   == IF dot = 0 THEN mant ELSE SubSeq(mant, 1, dot - 1)
        fp   == IF dot = 0 THEN "" ELSE SubSeq(mant, dot + 1, Len(mant))
        exv  == IF e = 0 THEN 0
                ELSE IF IsMinus(ex) THEN -DigitsValue(Unsigned(ex), 0)
                ELSE DigitsValue(Unsigned(ex), 0)
    IN  IF body \in {"inf", "infinity"} THEN Inf(neg)
        ELSE IF body = "nan" THEN NaN
        ELSE IF /\ AllDigits(ip) /\ AllDigits(fp) /\ ip \o fp # ""
                /\ (e = 0 \/ IsDigits(Unsigned(ex)))
             THEN DecimalToFloat(neg, ip \o fp, exv - Len(fp))
        ELSE ValueError

\* int(s), the type= of -p, for the literals [sign] digits: the integer (as
\* [kind |-> "int", value |-> n]), or ValueError.
int(s) ==
    IF IsDigits(Unsigned(s))
    THEN [kind |-> "int",
          value |-> IF IsMinus(s) THEN -DigitsValue(Unsigned(s), 0)
                    ELSE DigitsValue(Unsigned(s), 0)]
    ELSE ValueError

\* format(x, ".{precision}f"): the exact value of x rounded half-to-even to
\* precision decimals; "inf", "-inf" and "nan" carry no digits.
FormatFixed(x, precision) ==
    IF x.kind = "nan" THEN "nan"
    ELSE IF x.kind = "inf" THEN (IF x.neg THEN "-inf" ELSE "inf")
    ELSE LET whole == x.mag \div Quantum
             part  == (x.mag % Quantum) * Pow10(precision)
             q     == part \div Quantum
             r     == part % Quantum
             odd   == IF precision = 0 THEN (whole + q) % 2 = 1 ELSE q % 2 = 1
             up    == 2 * r > Quantum \/ (2 * r = Quantum /\ odd)
             frac  == IF up THEN q + 1 ELSE q
             carry == frac = Pow10(precision)
             int_s == IntToStr(IF carry THEN whole + 1 ELSE whole)
             frac_s == ZeroPad(IntToStr(IF carry THEN 0 ELSE frac), precision)
         IN  (IF x.neg THEN "-" ELSE "")
             \o int_s
             \o (IF precision = 0 THEN "" ELSE "." \o frac_s)

\* The line with the two numbers in each other's place.
format_output_swapped(original, converted, unit_from, unit_to, precision) ==
    FormatFixed(converted, precision) \o Degree \o unit_from \o " = "
    \o FormatFixed(original, precision) \o Degree \o unit_to

\* return f"{original:.{precision}f}°{unit_from} = {converted:.{precision}f}°{unit_to}"
format_output(original, converted, unit_from, unit_to, precision) ==
    FormatFixed(original, precision) \o Degree \o unit_from \o " = "
    \o FormatFixed(converted, precision) \o Degree \o unit_to

\* ---------------------------------------------------------------- argparse

HelpOptions == {"-h", "--help"}
CelsiusOptions == {"-c", "--celsius"}
FahrenheitOptions == {"-f", "--fahrenheit"}
PrecisionOptions == {"-p", "--precision"}
ValueOptions == CelsiusOptions \cup FahrenheitOptions \cup PrecisionOptions
OptionStrings == HelpOptions \cup ValueOptions

\* default=2
DefaultPrecision == 2
\* choices=range(0, 6)
MaxPrecision == 5
\* choices=range(0, 5): the upper end left out.
PrecisionChoicesShort == 0..(MaxPrecision - 1)
PrecisionChoices == 0..MaxPrecision

ProgName == "temp_converter"
UsageLine ==
    "usage: temp_converter [-h] (-c TEMPERATURE | -f TEMPERATURE) [-p DIGITS]"
Epilog ==
    "Example: temp_converter -c 25 (converts 25" \o Degree
    \o "C to Fahrenheit)"

\* parser.format_help(): usage, description, the options and the epilog.
HelpText ==
    << UsageLine,
       "",
       "Convert temperatures between Celsius and Fahrenheit",
       "",
       "options:",
       "  -h, --help            show this help message and exit",
       "  -c TEMPERATURE, --celsius TEMPERATURE",
       "                        temperature in Celsius to convert to Fahrenheit",
       "  -f TEMPERATURE, --fahrenheit TEMPERATURE",
       "                        temperature in Fahrenheit to convert to Celsius",
       "  -p DIGITS, --precision DIGITS",
       "                        number of decimal places in output (0-5, default: 2)",
       "",
       Epilog >>

\* The error message without the usage line before it.
ErrorTextMessageOnly(message) == << ProgName \o ": error: " \o message >>

\* parser.error(message): the usage line and the message, for the error stream.
ErrorText(message) == << UsageLine, ProgName \o ": error: " \o message >>

\* argparse's _negative_number_matcher: -digits or -[digits].digits
IsNegativeNumber(s) ==
    /\ Len(s) >= 2
    /\ Head(s) = "-"
    /\ LET r   == Tail(s)
           dot == IndexOf(r, ".")
       IN  IF dot = 0 THEN AllDigits(r)
           ELSE /\ AllDigits(SubSeq(r, 1, dot - 1))
                /\ IsDigits(SubSeq(r, dot + 1, Len(r)))

\* argparse's _parse_optional, for argument strings without "=", without
\* blanks and that abbreviate or bundle no option: "O" an option string, "A"
\* an argument.
Classify(s) ==
    IF s = "" THEN "A"
    ELSE IF Head(s) # "-" THEN "A"
    ELSE IF s \in OptionStrings THEN "O"
    ELSE IF Len(s) = 1 THEN "A"
    ELSE IF IsNegativeNumber(s) THEN "A"
    ELSE "O"

RECURSIVE Join(_)
Join(strings) ==
    IF Len(strings) = 1 THEN strings[1]
    ELSE strings[1] \o " " \o Join(Tail(strings))

ArgumentName(option) ==
    IF option \in CelsiusOptions THEN "-c/--celsius"
    ELSE IF option \in FahrenheitOptions THEN "-f/--fahrenheit"
    ELSE "-p/--precision"

Namespace(celsius, fahrenheit, precision) ==
    [celsius |-> celsius, fahrenheit |-> fahrenheit, precision |-> precision]

Parsed(namespace) == [status |-> "namespace", namespace |-> namespace]
ParserError(message) == [status |-> "error", message |-> message]
ParserHelp == [status |-> "help"]

\* int as %r prints it
Repr(n) == IF n < 0 THEN "-" \o IntToStr(-n) ELSE IntToStr(n)

\* The options of a parser whose -c and -f are in no mutually exclusive group:
\* no conflict check.
TakeOptionNoConflict(option, string, namespace) ==
    IF option \in PrecisionOptions
    THEN LET v == int(string)
         IN  IF v = ValueError
             THEN ParserError("argument -p/--precision: invalid int value: '"
                              \o string \o "'")
             ELSE IF v.value \notin PrecisionChoices
             THEN ParserError("argument -p/--precision: invalid choice: "
                              \o Repr(v.value)
                              \o " (choose from 0, 1, 2, 3, 4, 5)")
             ELSE Parsed([namespace EXCEPT !.precision = v.value])
    ELSE LET v == float(string)
         IN  IF v = ValueError
             THEN ParserError("argument " \o ArgumentName(option)
                              \o ": invalid float value: '" \o string \o "'")
             ELSE IF option \in CelsiusOptions
             THEN Parsed([namespace EXCEPT !.celsius = v])
             ELSE Parsed([namespace EXCEPT !.fahrenheit = v])

\* One option that takes a value: the type= conversion, the choices= check,
\* the mutually exclusive group's conflict check, then the store.  Gives the
\* parser's result when the option fails and the new namespace otherwise.
TakeOption(option, string, namespace) ==
    IF option \in PrecisionOptions
    THEN LET v == int(string)
         IN  IF v = ValueError
             THEN ParserError("argument -p/--precision: invalid int value: '"
                              \o string \o "'")
             ELSE IF v.value \notin PrecisionChoices
             THEN ParserError("argument -p/--precision: invalid choice: "
                              \o Repr(v.value)
                              \o " (choose from 0, 1, 2, 3, 4, 5)")
             ELSE Parsed([namespace EXCEPT !.precision = v.value])
    ELSE LET v == float(string)
             other == IF option \in CelsiusOptions
                      THEN namespace.fahrenheit ELSE namespace.celsius
             other_name == IF option \in CelsiusOptions
                           THEN "-f/--fahrenheit" ELSE "-c/--celsius"
         IN  IF v = ValueError
             THEN ParserError("argument " \o ArgumentName(option)
                              \o ": invalid float value: '" \o string \o "'")
             ELSE IF other # None
             THEN ParserError("argument " \o ArgumentName(option)
                              \o ": not allowed with argument " \o other_name)
             ELSE IF option \in CelsiusOptions
             THEN Parsed([namespace EXCEPT !.celsius = v])
             ELSE Parsed([namespace EXCEPT !.fahrenheit = v])

\* parse_known_args from argument i on: options are consumed left to right,
\* -h prints the help and exits at once, what is no option and no option's
\* value is collected in extras; at the end the required group is checked,
\* then parse_args rejects the extras.
RECURSIVE ParseFrom(_, _, _, _)
ParseFrom(arg_strings, i, namespace, extras) ==
    IF i > Len(arg_strings)
    THEN IF namespace.celsius = None /\ namespace.fahrenheit = None
         THEN ParserError(
                "one of the arguments -c/--celsius -f/--fahrenheit is required")
         ELSE IF extras # <<>>
         THEN ParserError("unrecognized arguments: " \o Join(extras))
         ELSE Parsed(namespace)
    ELSE LET s == arg_strings[i]
         IN  IF s \in HelpOptions THEN ParserHelp
             ELSE IF s \in ValueOptions
             THEN IF i = Len(arg_strings) \/ Classify(arg_strings[i + 1]) = "O"
                  THEN ParserError("argument " \o ArgumentName(s)
                                   \o ": expected one argument")
                  ELSE LET r == TakeOption(s, arg_strings[i + 1], namespace)
                       IN  IF r.status = "namespace"
                           THEN ParseFrom(arg_strings, i + 2, r.namespace, extras)
                           ELSE r
             ELSE ParseFrom(arg_strings, i + 1, namespace, Append(extras, s))

\* parse_arguments(): the parser of lines 42-71 applied to sys.argv[1:]
parse_arguments(arg_strings) ==
    ParseFrom(arg_strings, 1, Namespace(None, None, DefaultPrecision), <<>>)

\* -------------------------------------------------------------------- main

\* The argument strings a run may be given.
OptionTokens == {"-c", "-f", "-p", "-h", "-x"}
ValueTokens ==
    {"0", "-0.0", "5", "6", "25", "-1", "2.5", "abc", "inf", "nan", "1000"}
Tokens == OptionTokens \cup ValueTokens
\* A word of a command line: one string, or an option followed by a value.
Words ==
    {<<t>> : t \in Tokens}
    \cup {<<o, v>> : o \in {"-c", "-f", "-p"}, v \in ValueTokens}
\* The most words of a command line.
MaxWords == 2

RECURSIVE Lines(_)
Lines(n) ==
    IF n = 0 THEN {<<>>}
    ELSE LET shorter == Lines(n - 1)
         IN  shorter \cup {l \o w : l \in shorter, w \in Words}

CommandLines == Lines(MaxWords)

\* The notice without the newline before it.
CancelLinesNoBlank == << "Operation cancelled by user" >>
CancelLines == << "", "Operation cancelled by user" >>
\* str(UnicodeEncodeError)
EncodeErrorLine(position) ==
    "Error: 'ascii' codec can't encode character '\\xb0' in position "
    \o IntToStr(position) \o ": ordinal not in range(128)"
TracebackLines(exception) ==
    << "Traceback (most recent call last):", exception >>

HasDegree(s) == IndexOf(s, Degree) # 0

VARIABLES
    argv,             \* sys.argv[1:]
    stdout_encoding,  \* sys.stdout.encoding: "utf-8" or "ascii"
    pc,               \* where the run is: load, parse, convert, format, print, exit
    args,             \* main's args: None or the namespace
    converted_temp,   \* main's converted_temp: None or a float
    output,           \* main's output: None or a string
    stdout,           \* the lines written to standard output
    stderr,           \* the lines written to standard error
    exit_status,      \* the process's exit status, None while it runs
    interrupted_at,   \* the pc a KeyboardInterrupt was raised at, or "never"
    roundtrip

vars == <<argv, stdout_encoding, pc, args, converted_temp, output, stdout,
          stderr, exit_status, interrupted_at, roundtrip>>

Idle == [fn |-> "none", x |-> None, y |-> None, z |-> None]

Init ==
    /\ argv \in CommandLines
    /\ stdout_encoding \in {"utf-8", "ascii"}
    /\ pc = "load"
    /\ args = None
    /\ converted_temp = None
    /\ output = None
    /\ stdout = <<>>
    /\ stderr = <<>>
    /\ exit_status = None
    /\ interrupted_at = "never"
    /\ roundtrip = Idle

Exit(status) == pc' = "exit" /\ exit_status' = status

\* except ValueError as e: print(f"Error: {e}"); exit(1)
HandleValueError(line) ==
    /\ stdout' = Append(stdout, line)
    /\ Exit(1)

\* The offset of the first degree sign in the text made of lines, each ended
\* by a newline.
RECURSIVE DegreeOffset(_, _)
DegreeOffset(lines, before) ==
    IF HasDegree(Head(lines))
    THEN before + IndexOf(Head(lines), Degree) - 1
    ELSE DegreeOffset(Tail(lines), before + Len(Head(lines)) + 1)

\* One write of lines to sys.stdout: written whole, or UnicodeEncodeError (a
\* ValueError, which main catches) when the stream's encoding has no degree
\* sign.
PrintOrFail(lines, status) ==
    IF stdout_encoding = "ascii" /\ \E k \in 1..Len(lines) : HasDegree(lines[k])
    THEN HandleValueError(EncodeErrorLine(DegreeOffset(lines, 0)))
    ELSE /\ stdout' = stdout \o lines
         /\ Exit(status)

\* Lines 9-119 up to the call of main: the imports and the definitions.
Load ==
    /\ pc = "load"
    /\ pc' = "parse"
    /\ UNCHANGED <<argv, stdout_encoding, args, converted_temp, output, stdout,
                   stderr, exit_status, interrupted_at, roundtrip>>

\* args = parse_arguments()
ParseArguments ==
    /\ pc = "parse"
    /\ LET r == parse_arguments(argv)
       IN  \/ /\ r.status = "namespace"
              /\ args' = r.namespace
              /\ pc' = "convert"
              /\ UNCHANGED <<stdout, stderr, exit_status>>
           \/ /\ r.status = "error"
              \* parser.error: SystemExit(2) passes main's handlers
              /\ stderr' = stderr \o ErrorText(r.message)
              /\ Exit(2)
              /\ UNCHANGED <<args, stdout>>
           \/ /\ r.status = "help"
              \* print_help on sys.stdout, then SystemExit(0)
              /\ PrintOrFail(HelpText, 0)
              /\ UNCHANGED <<args, stderr>>
    /\ UNCHANGED <<argv, stdout_encoding, converted_temp, output,
                   interrupted_at, roundtrip>>

\* An argument of None makes the arithmetic raise TypeError, which no
\* handler of main catches.
Unhandled(exception, status) ==
    /\ stderr' = stderr \o TracebackLines(exception)
    /\ Exit(status)

\* if args.celsius: the truth value of the float, false for 0.0 and -0.0.
CelsiusTruthy(namespace) ==
    /\ namespace.celsius # None
    /\ ~(namespace.celsius.kind = "fin" /\ namespace.celsius.mag = 0)

\* if args.celsius is not None:
CelsiusGiven(namespace) == namespace.celsius # None

\* converted_temp = celsius_to_fahrenheit(args.celsius) in the if branch,
\* converted_temp = fahrenheit_to_celsius(args.fahrenheit) in the else branch
Convert ==
    /\ pc = "convert"
    /\ LET value == IF CelsiusGiven(args) THEN args.celsius ELSE args.fahrenheit
       IN  IF value = None
           THEN /\ Unhandled("TypeError", 1)
                /\ UNCHANGED converted_temp
           ELSE /\ converted_temp' =
                      IF CelsiusGiven(args)
                      THEN celsius_to_fahrenheit(value)
                      ELSE fahrenheit_to_celsius(value)
                /\ pc' = "format"
                /\ UNCHANGED <<stderr, exit_status>>
    /\ UNCHANGED <<argv, stdout_encoding, args, output, stdout,
                   interrupted_at, roundtrip>>

\* output = format_output(...)
FormatOutput ==
    /\ pc = "format"
    /\ output' =
          IF CelsiusGiven(args)
          THEN format_output(args.celsius, converted_temp, "C", "F",
                             args.precision)
          ELSE format_output(args.fahrenheit, converted_temp, "F", "C",
                             args.precision)
    /\ pc' = "print"
    /\ UNCHANGED <<argv, stdout_encoding, args, converted_temp, stdout, stderr,
                   exit_status, interrupted_at, roundtrip>>

\* print(output), and main returns
PrintOutput ==
    /\ pc = "print"
    /\ PrintOrFail(<<output>>, 0)
    /\ UNCHANGED <<argv, stdout_encoding, args, converted_temp, output, stderr,
                   interrupted_at, roundtrip>>

TryBlock == {"parse", "convert", "format", "print"}

\* The handler ending the run like the ValueError handler does: exit(1).
KeyboardInterruptExit1 ==
    /\ pc \in TryBlock
    /\ interrupted_at' = pc
    /\ stdout' = stdout \o CancelLines
    /\ Exit(1)
    /\ UNCHANGED <<argv, stdout_encoding, args, converted_temp, output, stderr,
                   roundtrip>>

\* except KeyboardInterrupt: print("\nOperation cancelled by user"); exit(0)
KeyboardInterrupt ==
    /\ pc \in TryBlock
    /\ interrupted_at' = pc
    /\ stdout' = stdout \o CancelLines
    /\ Exit(0)
    /\ UNCHANGED <<argv, stdout_encoding, args, converted_temp, output, stderr,
                   roundtrip>>

\* A KeyboardInterrupt before main's try block is entered: the interpreter
\* prints the traceback and ends by the signal (status 130 to a shell).
InterruptOutsideTry ==
    /\ pc = "load"
    /\ interrupted_at' = pc
    /\ Unhandled("KeyboardInterrupt", 130)
    /\ UNCHANGED <<argv, stdout_encoding, args, converted_temp, output, stdout,
                   roundtrip>>

Next ==
    \/ Load
    \/ ParseArguments
    \/ Convert
    \/ FormatOutput
    \/ PrintOutput
    \/ KeyboardInterrupt
    \/ InterruptOutsideTry

Spec == Init /\ [][Next]_vars

\* ------------------------------------------- the conversions, called alone

ProgramIdle ==
    /\ argv = <<>>
    /\ stdout_encoding = "utf-8"
    /\ pc = "idle"
    /\ args = None
    /\ converted_temp = None
    /\ output = None
    /\ stdout = <<>>
    /\ stderr = <<>>
    /\ exit_status = None
    /\ interrupted_at = "never"

ProgramUnchanged ==
    UNCHANGED <<argv, stdout_encoding, pc, args, converted_temp, output,
                stdout, stderr, exit_status, interrupted_at>>

InitConv ==
    /\ roundtrip \in [fn : {"c2f", "f2c"}, x : Floats, y : {None}, z : {None}]
    /\ ProgramIdle

ApplyConversion ==
    /\ roundtrip.y = None
    /\ roundtrip' = [roundtrip EXCEPT !.y =
                        IF roundtrip.fn = "c2f"
                        THEN celsius_to_fahrenheit(roundtrip.x)
                        ELSE fahrenheit_to_celsius(roundtrip.x)]
    /\ ProgramUnchanged

ApplyInverse ==
    /\ roundtrip.y # None
    /\ roundtrip.z = None
    /\ roundtrip' = [roundtrip EXCEPT !.z =
                        IF roundtrip.fn = "c2f"
                        THEN fahrenheit_to_celsius(roundtrip.y)
                        ELSE celsius_to_fahrenheit(roundtrip.y)]
    /\ ProgramUnchanged

NextConv == ApplyConversion \/ ApplyInverse

SpecConv == InitConv /\ [][NextConv]_vars

\* ------------------------------------------------------------- vocabulary

Max(a, b) == IF a > b THEN a ELSE b

Exited == pc = "exit"
NotInterrupted == interrupted_at = "never"
Accepted == args # None

Positions(options) == {i \in 1..Len(argv) : argv[i] \in options}
Supplies(options) == Positions(options) # {}
SuppliesBoth == Supplies(CelsiusOptions) /\ Supplies(FahrenheitOptions)
SuppliesNeither == ~Supplies(CelsiusOptions) /\ ~Supplies(FahrenheitOptions)

\* The string after the last occurrence of one of the options, the empty
\* string when that occurrence ends the command line.
LastValue(options) ==
    LET last == CHOOSE i \in Positions(options) :
                    \A j \in Positions(options) : j <= i
    IN  IF last < Len(argv) THEN argv[last + 1] ELSE ""

\* A printed conversion line ends with a degree sign and a unit.
IsConversionLine(line) ==
    /\ Len(line) >= 2
    /\ SubSeq(line, Len(line) - 1, Len(line)) \in {Degree \o "C", Degree \o "F"}
NoConversionLine == \A k \in 1..Len(stdout) : ~IsConversionLine(stdout[k])

\* The run ended as a usage error: status 2, the usage line and one error
\* line on the error stream, nothing on standard output.
UsageErrorExit ==
    /\ Exited
    /\ exit_status = 2
    /\ stdout = <<>>
    /\ Len(stderr) = 2
    /\ stderr[1] = UsageLine

\* The run ended in the parser's help action.
HelpExit ==
    /\ Exited
    /\ Supplies(HelpOptions)
    /\ stderr = <<>>
    /\ IF stdout_encoding = "utf-8"
       THEN exit_status = 0 /\ stdout = HelpText
       ELSE exit_status = 1 /\ Len(stdout) = 1

\* The decimal literals of the integers 0..5, and the strings among Tokens
\* that Python's float() accepts.
PrecisionLiterals == {"0", "1", "2", "3", "4", "5"}
NumericLiterals ==
    {"0", "-0.0", "5", "6", "25", "-1", "2.5", "inf", "nan", "1000"}

\* A command line of option/value pairs only, each value fit for its option,
\* with exactly one of -c and -f among the options.
WellFormed ==
    /\ Len(argv) % 2 = 0
    /\ \A i \in 1..Len(argv) :
         i % 2 = 1 =>
           \/ argv[i] \in PrecisionOptions /\ argv[i + 1] \in PrecisionLiterals
           \/ /\ argv[i] \in CelsiusOptions \cup FahrenheitOptions
              /\ argv[i + 1] \in NumericLiterals
    /\ Supplies(CelsiusOptions) # Supplies(FahrenheitOptions)

\* The two numbers of a conversion line, as printed.
FirstNumber(line) == SubSeq(line, 1, IndexOf(line, Degree) - 1)
SecondNumber(line) == SubSeq(line, IndexOf(line, Degree) + 5, Len(line) - 2)

\* text is a decimal numeral with exactly p digits after the point, and with
\* no point when p = 0.
HasDecimals(text, p) ==
    LET u   == IF IsMinus(text) THEN Tail(text) ELSE text
        dot == IndexOf(u, ".")
    IN  IF p = 0 THEN IsDigits(u)
        ELSE /\ dot > 1
             /\ IsDigits(SubSeq(u, 1, dot - 1))
             /\ Len(u) - dot = p
             /\ IsDigits(SubSeq(u, dot + 1, Len(u)))

NonFiniteText == {"inf", "-inf", "nan"}

\* The run printed its conversion line and ended.
Converted ==
    /\ Exited
    /\ NotInterrupted
    /\ Accepted
    /\ exit_status = 0
    /\ Len(stdout) = 1
    /\ IsConversionLine(stdout[1])

\* ------------------------------------------------------------------ claims

\* C1, as stated: the parser accepts only command lines with exactly one of
\* -c and -f, and every command line with both or with neither ends in a
\* usage error: non-zero status, no conversion line.
C1_AsStated ==
    /\ Accepted => Supplies(CelsiusOptions) # Supplies(FahrenheitOptions)
    /\ Exited /\ NotInterrupted /\ (SuppliesBoth \/ SuppliesNeither)
         => UsageErrorExit /\ NoConversionLine

\* C1, amended: the parser accepts only command lines with exactly one of -c
\* and -f; a command line with both or with neither is never accepted and
\* prints no conversion line, and it ends in a usage error (status 2) unless
\* -h/--help is reached first, when it ends in the help action instead.
C1_ExactlyOneDirection ==
    /\ Accepted => Supplies(CelsiusOptions) # Supplies(FahrenheitOptions)
    /\ (SuppliesBoth \/ SuppliesNeither) => ~Accepted /\ NoConversionLine
    /\ Exited /\ NotInterrupted /\ (SuppliesBoth \/ SuppliesNeither)
         => \/ UsageErrorExit
            \/ HelpExit
    /\ Exited /\ NotInterrupted /\ (SuppliesBoth \/ SuppliesNeither)
         /\ ~Supplies(HelpOptions)
         => UsageErrorExit

C1_Witness ==
    /\ argv = <<"-c", "25", "-f", "5">>
    /\ UsageErrorExit
    /\ NotInterrupted

\* A -p whose value is not the literal of an integer in 0..5.
BadPrecisionSupplied ==
    \E i \in Positions(PrecisionOptions) :
        i < Len(argv) /\ argv[i + 1] \notin PrecisionLiterals

\* One -c or -f with a number and one -p with a value, in either order.
DirectionAndPrecision ==
    /\ Len(argv) = 4
    /\ \E i \in {1, 3} :
         /\ argv[i] \in CelsiusOptions \cup FahrenheitOptions
         /\ argv[i + 1] \in NumericLiterals
         /\ argv[4 - i] \in PrecisionOptions

\* Both numbers of the printed line carry exactly args.precision decimals.
BothNumbersHaveDecimals ==
    /\ HasDecimals(FirstNumber(stdout[1]), args.precision)
    /\ HasDecimals(SecondNumber(stdout[1]), args.precision)

\* C2, as stated: a -p value is accepted if and only if it is an integer in
\* 0..5, any other value ends in a usage error with no conversion line, and
\* both numbers of the output carry exactly p decimals.
C2_AsStated ==
    /\ Exited /\ NotInterrupted /\ BadPrecisionSupplied
         => UsageErrorExit /\ NoConversionLine
    /\ pc # "load" /\ pc # "parse" /\ NotInterrupted /\ DirectionAndPrecision
         => (Accepted <=> LastValue(PrecisionOptions) \in PrecisionLiterals)
    /\ Converted => BothNumbersHaveDecimals

\* C2, amended: a -p value is accepted if and only if it is an integer in
\* 0..5; any other value is never accepted, prints no conversion line and
\* ends in a usage error unless -h/--help is reached first; an accepted
\* precision p prints every finite number with exactly p decimals (no point
\* when p = 0), while a number that is not finite (an inf or nan argument,
\* or a conversion that overflows) is printed as inf, -inf or nan.
C2_PrecisionRange ==
    /\ BadPrecisionSupplied => ~Accepted /\ NoConversionLine
    /\ Exited /\ NotInterrupted /\ BadPrecisionSupplied
         => UsageErrorExit \/ HelpExit
    /\ Exited /\ NotInterrupted /\ BadPrecisionSupplied /\ ~Supplies(HelpOptions)
         => UsageErrorExit
    /\ pc # "load" /\ pc # "parse" /\ NotInterrupted /\ DirectionAndPrecision
         => (Accepted <=> LastValue(PrecisionOptions) \in PrecisionLiterals)
    /\ Accepted
         => /\ args.precision \in 0..5
            /\ args.precision =
                 IF Supplies(PrecisionOptions)
                 THEN DigitsValue(LastValue(PrecisionOptions), 0) ELSE 2
    /\ Converted
         => LET value == IF Supplies(CelsiusOptions)
                         THEN args.celsius ELSE args.fahrenheit
            IN  /\ IF IsFinite(value)
                   THEN HasDecimals(FirstNumber(stdout[1]), args.precision)
                   ELSE FirstNumber(stdout[1]) \in NonFiniteText
                /\ IF IsFinite(converted_temp)
                   THEN HasDecimals(SecondNumber(stdout[1]), args.precision)
                   ELSE SecondNumber(stdout[1]) \in NonFiniteText

C2_Witness ==
    /\ argv = <<"-c", "25", "-p", "5">>
    /\ Converted
    /\ stdout = <<"25.00000" \o Degree \o "C = 77.00000" \o Degree \o "F">>

\* The line the command line asks for: the value after the last -c (or -f),
\* its conversion, and the precision after the last -p, 2 without one.
ExpectedLine ==
    LET p == IF Supplies(PrecisionOptions)
             THEN DigitsValue(LastValue(PrecisionOptions), 0) ELSE 2
    IN  IF Supplies(CelsiusOptions)
        THEN LET v == float(LastValue(CelsiusOptions))
             IN  FormatFixed(v, p) \o Degree \o "C = "
                 \o FormatFixed(celsius_to_fahrenheit(v), p) \o Degree \o "F"
        ELSE LET v == float(LastValue(FahrenheitOptions))
             IN  FormatFixed(v, p) \o Degree \o "F = "
                 \o FormatFixed(fahrenheit_to_celsius(v), p) \o Degree \o "C"

ErrorC2F(x, y) == Abs(5 * Signed(y) - (9 * Signed(x) + 160 * Quantum))
ErrorF2C(x, y) == Abs(9 * Signed(y) - 5 * (Signed(x) - 32 * Quantum))

\* The spacing of the floats at the larger of |x| and 32: the unit the
\* rounding errors of either formula are measured in.
Spacing(x) == Ulp(Max(x.mag, 32 * Quantum))

Called(fn) == roundtrip.fn = fn /\ roundtrip.y # None
CalledBack(fn) == roundtrip.fn = fn /\ roundtrip.z # None

\* The four values the specification names come out exactly.
ExactValues ==
    /\ Called("c2f") /\ roundtrip.x = Fin(FALSE, 0)
         => roundtrip.y = Fin(FALSE, 32 * Quantum)
    /\ Called("c2f") /\ roundtrip.x = Fin(FALSE, 100 * Quantum)
         => roundtrip.y = Fin(FALSE, 212 * Quantum)
    /\ Called("f2c") /\ roundtrip.x = Fin(FALSE, 32 * Quantum)
         => roundtrip.y = Fin(FALSE, 0)
    /\ Called("f2c") /\ roundtrip.x = Fin(FALSE, 212 * Quantum)
         => roundtrip.y = Fin(FALSE, 100 * Quantum)

\* The result is the formula's exact value up to the roundings of its three
\* operations: within 3 spacings for x * 9/5 + 32 (measured at 2|x|, the
\* size of the intermediate product) and for (x - 32) * 5/9.
WithinRounding ==
    /\ Called("c2f")
         => /\ IsFinite(roundtrip.y)
            /\ ErrorC2F(roundtrip.x, roundtrip.y)
                 <= 5 * 3 * Ulp(Max(2 * roundtrip.x.mag, 32 * Quantum))
    /\ Called("f2c")
         => /\ IsFinite(roundtrip.y)
            /\ ErrorF2C(roundtrip.x, roundtrip.y) <= 9 * 3 * Spacing(roundtrip.x)

\* The intermediate product of the formula is no larger than the largest
\* finite float.
ProductInRange(fn, x) ==
    IF fn = "c2f" THEN 9 * x.mag <= MaxMag
    ELSE 5 * Abs(Signed(x) - 32 * Quantum) <= MaxMag

\* C4: celsius_to_fahrenheit(c) is c * 9/5 + 32 and fahrenheit_to_celsius(f)
\* is (f - 32) * 5/9, computed in floating point: for every finite input
\* whose intermediate product (c * 9, or (f - 32) * 5) stays within the
\* floats' range the result is the formula's value up to the roundings of
\* the three operations, nothing being rounded to the display precision; an
\* input whose product leaves the range gives the infinity of its sign, as
\* the floating-point formula does; the four named values are exact.
C4_Formulas ==
    /\ ExactValues
    /\ IsFinite(roundtrip.x) /\ ProductInRange(roundtrip.fn, roundtrip.x)
         => WithinRounding
    /\ (Called("c2f") \/ Called("f2c")) /\ IsFinite(roundtrip.x)
         /\ ~IsFinite(roundtrip.y)
         => roundtrip.y = Inf(roundtrip.x.neg)

C4_Witness ==
    /\ Called("c2f")
    /\ roundtrip.x = Fin(TRUE, 154)
    /\ IsFinite(roundtrip.y)
    /\ ErrorC2F(roundtrip.x, roundtrip.y) > 0

\* z is x again, within 4 spacings.
BackWithinRounding ==
    /\ IsFinite(roundtrip.z)
    /\ Abs(Signed(roundtrip.z) - Signed(roundtrip.x)) <= 4 * Spacing(roundtrip.x)

\* C5, as stated: for every finite c, fahrenheit_to_celsius(
\* celsius_to_fahrenheit(c)) is c within rounding tolerance, and for every
\* finite f, celsius_to_fahrenheit(fahrenheit_to_celsius(f)) is f.
C5_AsStated ==
    (CalledBack("c2f") \/ CalledBack("f2c")) /\ IsFinite(roundtrip.x)
        => BackWithinRounding

\* C5, amended: the round trip gives the input back within rounding
\* tolerance for every finite input whose intermediate products stay within
\* the floats' range (|c| * 9 for Celsius, |f - 32| * 5 and the same margin
\* again on the way back for Fahrenheit); past that range it gives an
\* infinity.
C5_RoundTrip ==
    /\ CalledBack("c2f") /\ IsFinite(roundtrip.x)
         /\ 9 * roundtrip.x.mag <= MaxMag
         => BackWithinRounding
    /\ CalledBack("f2c") /\ IsFinite(roundtrip.x)
         /\ 5 * (roundtrip.x.mag + 64 * Quantum) <= MaxMag
         => BackWithinRounding
    /\ (CalledBack("c2f") \/ CalledBack("f2c")) /\ IsFinite(roundtrip.x)
         => BackWithinRounding \/ roundtrip.z = Inf(roundtrip.x.neg)

C5_Witness ==
    /\ CalledBack("c2f")
    /\ IsFinite(roundtrip.x)
    /\ IsFinite(roundtrip.z)
    /\ roundtrip.z # roundtrip.x
    /\ BackWithinRounding

\* The lines the run wrote, on either stream.
LinesPrinted == Len(stdout) + Len(stderr)

\* C6, as stated: every exit path prints exactly one line before the process
\* exits.
C6_AsStated == Exited /\ interrupted_at # "load" => LinesPrinted = 1

\* C6, amended: every exit path prints before the process exits, and what it
\* prints depends on the path: a conversion prints its one line and a value
\* error its one "Error: ..." line on standard output; a usage error prints
\* two lines on the error stream, the usage line and the error message; help
\* prints the whole help text; a handled interrupt prints an empty line and
\* then the cancellation notice.
C6_ExitPaths ==
    Exited =>
        IF interrupted_at \in TryBlock
        THEN stdout = << "", "Operation cancelled by user" >> /\ stderr = <<>>
        ELSE IF interrupted_at = "load"
        THEN stdout = <<>> /\ Len(stderr) >= 1
        ELSE IF exit_status = 2
        THEN stdout = <<>> /\ Len(stderr) = 2
        ELSE IF exit_status = 1
        THEN /\ Len(stdout) = 1
             /\ SubSeq(stdout[1], 1, 7) = "Error: "
             /\ stderr = <<>>
        ELSE /\ exit_status = 0
             /\ stderr = <<>>
             /\ IF Accepted
                THEN Len(stdout) = 1 /\ IsConversionLine(stdout[1])
                ELSE Len(stdout) = 14 /\ stdout[1] = UsageLine

C6_Witness ==
    /\ Exited
    /\ NotInterrupted
    /\ exit_status = 2
    /\ LinesPrinted = 2

\* C7, as stated: on every usage error the error stream gets a synopsis with
\* the program name, the options and one example invocation, standard output
\* gets nothing, the status is neither the conversion's nor 0, and no
\* conversion is computed.
C7_AsStated ==
    Exited /\ NotInterrupted /\ exit_status = 2
        => /\ stderr[1] = UsageLine
           /\ \E k \in 1..Len(stderr) : stderr[k] = Epilog
           /\ stdout = <<>>
           /\ converted_temp = None

\* C7, amended: a command line that is not well formed (an argument missing,
\* conflicting, non-numeric, out of range, unrecognized, or an option without
\* its value) and reaches no -h/--help is a usage error, and a well-formed
\* one is not; on every usage error the error stream gets the usage line
\* (program name and options) and one line "temp_converter: error: ...", but
\* no example invocation (the example is part of the help text only),
\* standard output gets nothing, the status is 2 and no conversion is
\* computed.
C7_UsageError ==
    /\ Exited /\ NotInterrupted /\ ~Supplies(HelpOptions)
         => (exit_status = 2 <=> ~WellFormed)
    /\ Exited /\ NotInterrupted /\ exit_status = 2
         => /\ UsageErrorExit
            /\ SubSeq(stderr[2], 1, 23) = "temp_converter: error: "
            /\ \A k \in 1..Len(stderr) : stderr[k] # Epilog
            /\ ~Accepted
            /\ converted_temp = None
            /\ output = None

C7_Witness ==
    /\ argv = <<"-c", "abc">>
    /\ UsageErrorExit
    /\ stderr[2] = "temp_converter: error: argument -c/--celsius: invalid float value: 'abc'"

C9_FiniteRequest ==
    Accepted
        => /\ (args.celsius # None) # (args.fahrenheit # None)
           /\ args.precision \in 0..5
           /\ ~Supplies(PrecisionOptions) => args.precision = 2
           /\ IsFinite(IF args.celsius # None
                       THEN args.celsius ELSE args.fahrenheit)

\* C10: the direction follows the option that is present, not its value: -c
\* is converted Celsius to Fahrenheit also when its value is 0 or -0.0, the
\* else branch is entered with a Fahrenheit value only, and no conversion is
\* ever called with None.
C10_Dispatch ==
    /\ pc \in {"format", "print"} \/ Converted
         => /\ Supplies(CelsiusOptions)
              => /\ args.celsius # None
                 /\ converted_temp = celsius_to_fahrenheit(args.celsius)
            /\ ~Supplies(CelsiusOptions)
              => /\ args.fahrenheit # None
                 /\ converted_temp = fahrenheit_to_celsius(args.fahrenheit)
    /\ Accepted /\ Exited /\ NotInterrupted => Len(stderr) = 0
    /\ \A k \in 1..Len(stderr) : stderr[k] # "TypeError"
    /\ Converted /\ argv = <<"-c", "0">>
         => stdout = <<"0.00" \o Degree \o "C = 32.00" \o Degree \o "F">>
    /\ Converted /\ argv = <<"-c", "-0.0">>
         => stdout = <<"-0.00" \o Degree \o "C = 32.00" \o Degree \o "F">>

C10_Witness ==
    /\ argv = <<"-c", "0">>
    /\ Converted
    /\ converted_temp = Fin(FALSE, 32 * Quantum)

=============================================================================
